---- MODULE Spec2Model ----
(***************************************************************************)
(* A model of the imageboard of src/main.rs: the sled store with its       *)
(* "thread_<id>" and "reply_<parent>_<id>" keys, the upload directories,   *)
(* and the four request handlers homepage, view_thread, create_thread and  *)
(* create_reply.  create_thread awaits the fields and the chunks of its    *)
(* multipart body, so it is a sequence of steps, cut at every await that   *)
(* follows a change of the disk and at its accesses to the store and the   *)
(* clock; other requests are handled between its steps.  Spec is the       *)
(* board: create_thread requests that come one after another, with replies *)
(* and lookups between their steps.  SpecUpload is create_thread with      *)
(* every kind of upload.  SpecReply is the replies and lookups of a board, *)
(* SpecHome is homepage over boards of up to MaxHomeThreads.  In SpecRace  *)
(* up to MaxRace create_thread and create_reply requests run concurrently, *)
(* create_reply too being cut at its accesses to the store and the clock.  *)
(***************************************************************************)
EXTENDS Integers, Sequences, FiniteSets, TLC

VARIABLES
    store,    \* the sled Db: a function from keys (byte strings) to JSON values
    files,    \* the files that exist under the upload and thumbnail directories
    clock,    \* what Utc::now().timestamp() returns
    uuid,     \* the number of Uuid::new_v4() names handed out so far
    posted,   \* history: per parent id, the number of create_reply requests answered 303
    resp,     \* the create_reply, view_thread or homepage handled last and its response
    inflight  \* per connection, the request it carries: its position, its locals and,
              \* once it is answered, its response

vars == <<store, files, clock, uuid, posted, resp, inflight>>

\* ------------------------------------------------------------------ bounds

MaxThreads == 2
MaxReplies == 3
MaxClock == 1
MaxUuid == 2
MaxHomeThreads == 25
MaxRace == 2
MaxBoardReplies == 1

\* ----------------------------------------------------------------- options

None == <<>>
Some(x) == <<x>>

\* The element of a set of one: {f(v) : v \in {e}} computes e once, as a
\* local variable holds a value the code computed once.
Only(S) == CHOOSE x \in S : TRUE

\* ------------------------------------------------------------------ strings
\* A string is the sequence of its characters.

\* The characters U+000B (vertical tab), U+0085 (next line) and U+00A0
\* (no-break space), which have no escape: each string holds the character
\* itself.
VT == ""
NEL == ""
NBSP == " "

\* char::is_whitespace: the White_Space characters up to U+00FF, which are
\* U+0009..U+000D, U+0020, U+0085 and U+00A0.  The spaces above U+00FF
\* (U+1680, U+2000..U+200A, U+2028, U+2029, U+202F, U+205F, U+3000) cannot
\* be written in a string of the model.
IsWhitespace(c) == c \in {" ", "\t", "\n", "\r", "\f", VT, NEL, NBSP}

RECURSIVE trim_start(_)
trim_start(s) ==
    IF s = <<>> THEN s
    ELSE IF IsWhitespace(Head(s)) THEN trim_start(Tail(s)) ELSE s

RECURSIVE trim_end(_)
trim_end(s) ==
    IF s = <<>> THEN s
    ELSE IF IsWhitespace(s[Len(s)]) THEN trim_end(SubSeq(s, 1, Len(s) - 1)) ELSE s

\* str::trim
trim(s) == trim_end(trim_start(s))

\* U+FFFD REPLACEMENT CHARACTER, which String::from_utf8_lossy puts in the
\* place of bytes that are not UTF-8.  It is above U+00FF and cannot be
\* written in a string of the model: this name is the one character.
REPLACEMENT_CHARACTER == "U+FFFD"

\* The code point of each character the texts of the requests are written
\* with.
CodePoint ==
    [c \in {"\t", "\n", VT, "\f", "\r", " ", "1", "2", "3", "m", "o", "t", NEL, NBSP,
            REPLACEMENT_CHARACTER} |->
        CASE c = "\t" -> 9 [] c = "\n" -> 10 [] c = VT -> 11 [] c = "\f" -> 12
          [] c = "\r" -> 13 [] c = " " -> 32
          [] c = "1" -> 49 [] c = "2" -> 50 [] c = "3" -> 51
          [] c = "m" -> 109 [] c = "o" -> 111 [] c = "t" -> 116
          [] c = NEL -> 133 [] c = NBSP -> 160
          [] c = REPLACEMENT_CHARACTER -> 65533]

\* char::from_u32, for the characters of CodePoint.
char_of(cp) == CHOOSE c \in DOMAIN CodePoint : CodePoint[c] = cp

\* char::encode_utf8: the bytes of a code point below U+10000.
encode_utf8(cp) ==
    IF cp < 128 THEN <<cp>>
    ELSE IF cp < 2048 THEN <<192 + (cp \div 64), 128 + (cp % 64)>>
    ELSE <<224 + (cp \div 4096), 128 + ((cp \div 64) % 64), 128 + (cp % 64)>>

\* str::as_bytes: the UTF-8 bytes of a string.
RECURSIVE as_bytes(_)
as_bytes(s) ==
    IF s = <<>> THEN <<>> ELSE encode_utf8(CodePoint[Head(s)]) \o as_bytes(Tail(s))

\* A continuation byte at place i of bs.
IsContinuation(bs, i) == i <= Len(bs) /\ bs[i] \in 128..191

\* The second byte b1 that may follow the first byte b0 of a sequence of
\* three or four bytes: no overlong form, no surrogate, nothing above
\* U+10FFFF.
SecondByte(b0, b1) ==
    IF b0 = 224 THEN b1 \in 160..191
    ELSE IF b0 = 237 THEN b1 \in 128..159
    ELSE IF b0 = 240 THEN b1 \in 144..191
    ELSE IF b0 = 244 THEN b1 \in 128..143
    ELSE b1 \in 128..191

\* Utf8Chunks::next at the head of bs: the code point of the sequence that
\* starts there and its length, or, when no sequence does, None and the
\* length of the longest beginning of a sequence, which is replaced as one.
decode_first(bs) ==
    Only({IF b < 128 THEN [len |-> 1, cp |-> Some(b)]
          ELSE IF b \in 194..223 THEN
              IF IsContinuation(bs, 2)
              THEN [len |-> 2, cp |-> Some((b - 192) * 64 + (bs[2] - 128))]
              ELSE [len |-> 1, cp |-> None]
          ELSE IF b \in 224..239 THEN
              IF ~(Len(bs) >= 2 /\ SecondByte(b, bs[2])) THEN [len |-> 1, cp |-> None]
              ELSE IF ~IsContinuation(bs, 3) THEN [len |-> 2, cp |-> None]
              ELSE [len |-> 3,
                    cp |-> Some((b - 224) * 4096 + (bs[2] - 128) * 64 + (bs[3] - 128))]
          ELSE IF b \in 240..244 THEN
              IF ~(Len(bs) >= 2 /\ SecondByte(b, bs[2])) THEN [len |-> 1, cp |-> None]
              ELSE IF ~IsContinuation(bs, 3) THEN [len |-> 2, cp |-> None]
              ELSE IF ~IsContinuation(bs, 4) THEN [len |-> 3, cp |-> None]
              ELSE [len |-> 4,
                    cp |-> Some((b - 240) * 262144 + (bs[2] - 128) * 4096
                                  + (bs[3] - 128) * 64 + (bs[4] - 128))]
          ELSE [len |-> 1, cp |-> None] :
            b \in {bs[1]}})

\* String::from_utf8_lossy: the characters of the bytes, with
\* REPLACEMENT_CHARACTER for every run of bytes that is no character.
RECURSIVE from_utf8_lossy(_)
from_utf8_lossy(bs) ==
    IF bs = <<>> THEN <<>>
    ELSE Only({<<IF d.cp = None THEN REPLACEMENT_CHARACTER ELSE char_of(d.cp[1])>>
                 \o from_utf8_lossy(SubSeq(bs, d.len + 1, Len(bs))) :
                   d \in {decode_first(bs)}})

\* The chunks a string reaches the handler in when its bytes come whole, and
\* when the stream is cut after the first k of them.
Whole(s) == IF s = <<>> THEN <<>> ELSE <<as_bytes(s)>>
CutAt(s, k) ==
    Only({<<SubSeq(bs, 1, k), SubSeq(bs, k + 1, Len(bs))>> : bs \in {as_bytes(s)}})

\* text.push_str(&String::from_utf8_lossy(&data)) for each chunk of a field.
RECURSIVE push_chunks(_, _)
push_chunks(text, chunks) ==
    IF chunks = <<>> THEN text
    ELSE push_chunks(text \o from_utf8_lossy(Head(chunks)), Tail(chunks))

DigitChar(d) == <<"0", "1", "2", "3", "4", "5", "6", "7", "8", "9">>[d + 1]

RECURSIVE Digits(_)
Digits(n) == IF n < 10 THEN <<DigitChar(n)>> ELSE Digits(n \div 10) \o <<DigitChar(n % 10)>>

\* "{}" of an i32
Decimal(n) == IF n < 0 THEN <<"-">> \o Digits(-n) ELSE Digits(n)

\* The byte of each character a key is made of.
ByteOf ==
    [c \in {"-", "0", "1", "2", "3", "4", "5", "6", "7", "8", "9", "_",
            "a", "d", "e", "h", "l", "p", "r", "t", "y"} |->
        CASE c = "-" -> 45
          [] c = "0" -> 48 [] c = "1" -> 49 [] c = "2" -> 50 [] c = "3" -> 51
          [] c = "4" -> 52 [] c = "5" -> 53 [] c = "6" -> 54 [] c = "7" -> 55
          [] c = "8" -> 56 [] c = "9" -> 57
          [] c = "_" -> 95
          [] c = "a" -> 97 [] c = "d" -> 100 [] c = "e" -> 101 [] c = "h" -> 104
          [] c = "l" -> 108 [] c = "p" -> 112 [] c = "r" -> 114 [] c = "t" -> 116
          [] c = "y" -> 121]

\* Lexicographic order on byte strings: sled iterates its keys in this order.
KeyLess(a, b) ==
    LET differ == {i \in 1..Len(a) : i <= Len(b) /\ a[i] # b[i]}
        first == CHOOSE i \in differ : \A j \in differ : i <= j
    IN IF differ = {} THEN Len(a) < Len(b)
       ELSE ByteOf[a[first]] < ByteOf[b[first]]

starts_with(k, prefix) ==
    Len(prefix) <= Len(k) /\ SubSeq(k, 1, Len(prefix)) = prefix

\* --------------------------------------------------------------------- keys

THREAD_PREFIX == <<"t", "h", "r", "e", "a", "d", "_">>
REPLY_PREFIX == <<"r", "e", "p", "l", "y", "_">>

\* format!("thread_{}", thread_id)
thread_key(thread_id) == THREAD_PREFIX \o Decimal(thread_id)

\* format!("reply_{}_{}", parent_id, reply_id)
reply_key(parent_id, reply_id) ==
    REPLY_PREFIX \o Decimal(parent_id) \o <<"_">> \o Decimal(reply_id)

\* format!("reply_{}", parent_id): the prefix get_replies and count_replies scan
reply_prefix(parent_id) == REPLY_PREFIX \o Decimal(parent_id)

\* ---------------------------------------------------------------- the store

\* An insert that keeps the value a key already has.
db_insert_if_absent(db, key, value) ==
    [k \in DOMAIN db \cup {key} |-> IF k \in DOMAIN db THEN db[k] ELSE value]

\* sled::Db::insert
db_insert(db, key, value) ==
    [k \in DOMAIN db \cup {key} |-> IF k = key THEN value ELSE db[k]]

\* sled::Db::get(..).ok().flatten()
db_get(db, key) == IF key \in DOMAIN db THEN Some(db[key]) ELSE None

RECURSIVE insert_key(_, _)
insert_key(keys, k) ==
    IF keys = <<>> THEN <<k>>
    ELSE IF KeyLess(k, Head(keys)) THEN <<k>> \o keys
    ELSE <<Head(keys)>> \o insert_key(Tail(keys), k)

\* The keys of S in sled's order.
RECURSIVE SortedKeys(_)
SortedKeys(S) ==
    IF S = {} THEN <<>>
    ELSE LET k == CHOOSE x \in S : TRUE
         IN Only({insert_key(rest, k) : rest \in {SortedKeys(S \ {k})}})

\* sled::Db::scan_prefix: the keys that start with the prefix, in key order
prefix_keys(db, prefix) == {k \in DOMAIN db : starts_with(k, prefix)}
scan_prefix(db, prefix) == SortedKeys(prefix_keys(db, prefix))

\* serde_json::to_vec of a Thread or a Reply: the JSON object of its fields
to_vec(x) == x

\* serde_json::from_slice::<Thread>: the Option fields may be missing, the
\* others may not
from_slice_Thread(v) ==
    IF {"id", "title", "message", "last_updated"} \subseteq DOMAIN v
    THEN Some([id |-> v.id, title |-> v.title, message |-> v.message,
               last_updated |-> v.last_updated,
               media_url |-> IF "media_url" \in DOMAIN v THEN v.media_url ELSE None,
               media_type |-> IF "media_type" \in DOMAIN v THEN v.media_type ELSE None])
    ELSE None

\* serde_json::from_slice::<Reply>
from_slice_Reply(v) ==
    IF {"id", "message"} \subseteq DOMAIN v
    THEN Some([id |-> v.id, message |-> v.message])
    ELSE None

\* The Some(..) entries of a sequence of options, in order (filter_map).
RECURSIVE filter_map(_)
filter_map(s) ==
    IF s = <<>> THEN <<>>
    ELSE Only({(IF Head(s) = None THEN <<>> ELSE <<Head(s)[1]>>) \o rest :
                 rest \in {filter_map(Tail(s))}})

get_all_threads(db) ==
    Only({filter_map([i \in 1..Len(keys) |-> from_slice_Thread(db[keys[i]])]) :
            keys \in {scan_prefix(db, THREAD_PREFIX)}})

\* db.scan_prefix(b"thread_").count()
count_threads(db) == Cardinality(prefix_keys(db, THREAD_PREFIX))

get_replies(db, parent_id) ==
    Only({filter_map([i \in 1..Len(keys) |-> from_slice_Reply(db[keys[i]])]) :
            keys \in {scan_prefix(db, reply_prefix(parent_id))}})

\* A count of the threads where the replies of the parent are meant.
count_replies_of_threads(db, parent_id) == count_threads(db)

\* db.scan_prefix(format!("reply_{}", parent_id).as_bytes()).count()
count_replies(db, parent_id) == Cardinality(prefix_keys(db, reply_prefix(parent_id)))

\* ------------------------------------------------------------------- inputs

ParentInputs == {1, 2, 10}

Posted(p) == IF p \in DOMAIN posted THEN posted[p] ELSE 0

\* ------------------------------------------------------------ create_reply

\* A touch that writes the zero timestamp instead of the clock reading.
touch_epoch(thread, now) == [thread EXCEPT !.last_updated = 0]

\* A touch that also forgets the media of the thread.
touch_dropping_media(thread, now) ==
    [thread EXCEPT !.last_updated = now, !.media_url = None, !.media_type = None]

\* thread.last_updated = Utc::now().timestamp()
touch(thread, now) == [thread EXCEPT !.last_updated = now]

\* POST /reply, from the form to the response: the store it leaves and the
\* response.  put_ok and touch_ok say whether sled accepts the two inserts,
\* now is Utc::now().timestamp().
reply_result(db, now, parent_id, form_message, put_ok, touch_ok) ==
    LET message == trim(form_message)
        req == [parent_id |-> parent_id, message |-> form_message, now |-> now]
        reply_id == count_replies(db, parent_id) + 1
        reply == [id |-> reply_id, message |-> message]
        key == reply_key(parent_id, reply_id)
        db1 == db_insert(db, key, to_vec(reply))
        tkey == thread_key(parent_id)
        thread_bytes == db_get(db1, tkey)
        thread == IF thread_bytes = None THEN None ELSE from_slice_Thread(thread_bytes[1])
        updated == touch(thread[1], now)
    IN
    IF message = <<>> THEN
        [store |-> db, posted |-> FALSE,
         resp |-> [op |-> "create_reply", req |-> req, status |-> 400,
                   body |-> "Message cannot be empty"]]
    ELSE IF put_ok THEN
        [store |-> IF thread # None /\ touch_ok
                   THEN db_insert(db1, tkey, to_vec(updated)) ELSE db1,
         posted |-> TRUE,
         resp |-> [op |-> "create_reply", req |-> req, status |-> 303, body |-> "",
                   reply_id |-> reply_id]]
    ELSE
        [store |-> db, posted |-> FALSE,
         resp |-> [op |-> "create_reply", req |-> req, status |-> 500,
                   body |-> "Failed to post reply"]]

create_reply(parent_id, form_message, put_ok, touch_ok) ==
    \E r \in {reply_result(store, clock, parent_id, form_message, put_ok, touch_ok)} :
        /\ store' = r.store
        /\ resp' = r.resp
        /\ posted' = IF r.posted
                     THEN [p \in DOMAIN posted \cup {parent_id} |->
                              IF p = parent_id THEN Posted(p) + 1 ELSE posted[p]]
                     ELSE posted
        /\ UNCHANGED <<files, clock, uuid, inflight>>

\* ------------------------------------------------------------ media upload

IMAGE_UPLOAD_DIR == "./uploads/images/"
VIDEO_UPLOAD_DIR == "./uploads/videos/"
IMAGE_THUMB_DIR == "./thumbs/images/"

\* A file name is the sequence of its pieces, "." being the dot and "/" the
\* separator of path components.
\* The components of a path, each by its first and last piece.  Empty
\* components and "." components after the first are passed over.
Components(path) ==
    {r \in (1..Len(path)) \X (1..Len(path)) :
        /\ r[1] <= r[2]
        /\ \A i \in r[1]..r[2] : path[i] # "/"
        /\ r[1] = 1 \/ path[r[1] - 1] = "/"
        /\ r[2] = Len(path) \/ path[r[2] + 1] = "/"
        /\ ~(r[1] > 1 /\ r[1] = r[2] /\ path[r[1]] = ".")}

\* std::path::Path::file_name: the last component of the path when it is a
\* normal one; a path that ends in ".." or is "." has no file name.
file_name(path) ==
    Only({IF kept = {} THEN None
          ELSE Only({IF name \in {<<".">>, <<".", ".">>} THEN None ELSE Some(name) :
                       name \in {SubSeq(path, r[1], r[2]) :
                                    r \in {r \in kept : \A q \in kept : q[1] <= r[1]}}}) :
            kept \in {Components(path)}})

\* std::path::Path::extension: what follows the last dot of a file name that
\* has one after its first piece.
Extension(filename) ==
    Only({IF name = None THEN None
          ELSE Only({IF dots = {} THEN None
                     ELSE Some(SubSeq(name[1],
                                      (CHOOSE i \in dots : \A j \in dots : j <= i) + 1,
                                      Len(name[1]))) :
                       dots \in {{i \in 2..Len(name[1]) : name[1][i] = "."}}}) :
            name \in {file_name(filename)}})

\* mime_guess::from_path(..).first_or_octet_stream()
mime_guess(filename) ==
    Only({IF ext \in {Some(<<"jpg">>), Some(<<"jpeg">>)} THEN [type |-> "image", subtype |-> "jpeg"]
          ELSE IF ext = Some(<<"png">>) THEN [type |-> "image", subtype |-> "png"]
          ELSE IF ext = Some(<<"gif">>) THEN [type |-> "image", subtype |-> "gif"]
          ELSE IF ext = Some(<<"webp">>) THEN [type |-> "image", subtype |-> "webp"]
          ELSE IF ext = Some(<<"bmp">>) THEN [type |-> "image", subtype |-> "bmp"]
          ELSE IF ext = Some(<<"mp4">>) THEN [type |-> "video", subtype |-> "mp4"]
          ELSE IF ext = Some(<<"webm">>) THEN [type |-> "video", subtype |-> "webm"]
          ELSE IF ext = Some(<<"txt">>) THEN [type |-> "text", subtype |-> "plain"]
          ELSE [type |-> "application", subtype |-> "octet-stream"] :
            ext \in {Extension(filename)}})

\* A subtype check that lets every image through.
SupportedImage_any(subtype) == TRUE

SupportedImage(subtype) == subtype \in {"jpeg", "png", "gif", "webp"}
SupportedVideo(subtype) == subtype = "mp4"

\* Err(e) of a handler, as actix answers it.  The status of an io::Error
\* goes by its kind: 404 for NotFound, 403 for PermissionDenied, 500 for
\* every other.
MultipartErr == [status |-> 400, body |-> "multipart error"]
IoErr(kind) ==
    [status |-> IF kind = "NotFound" THEN 404
                ELSE IF kind = "PermissionDenied" THEN 403 ELSE 500,
     body |-> kind]
ErrorKinds == {"NotFound", "PermissionDenied", "Other"}
BadRequest(body) == [status |-> 400, body |-> body]

Event(ev, path) == [ev |-> ev, path |-> path]

\* A rejection of the undecodable image that leaves the file where it is.
reject_undecodable_keeping(written, filepath, remove) ==
    [written EXCEPT !.log = Append(@, Event("undecodable", filepath)),
                    !.ret = Some(BadRequest("Invalid image file"))]

\* The kind of the io::Error of a std::fs::remove_file that fails: something
\* else has taken the file away ("gone"), the directory may not be changed
\* ("denied"), or the removal fails in any other way, as when the path has
\* become a directory ("isdir").
remove_error_kind(remove) ==
    IF remove = "gone" THEN "NotFound"
    ELSE IF remove = "denied" THEN "PermissionDenied"
    ELSE "Other"

\* image::open failed: std::fs::remove_file(&filepath_clone)?, then the 400.
\* When the removal fails the handler returns its io::Error as it is, and
\* the path is still there unless something else has taken it away.
reject_undecodable(written, filepath, remove) ==
    IF remove = "ok"
    THEN [written EXCEPT !.files = @ \ {filepath},
                         !.log = @ \o <<Event("undecodable", filepath), Event("remove", filepath)>>,
                         !.ret = Some(BadRequest("Invalid image file"))]
    ELSE [written EXCEPT !.files = IF remove = "gone" THEN @ \ {filepath} ELSE @,
                         !.log = @ \o <<Event("undecodable", filepath),
                                        Event("remove_failed", filepath)>>,
                         !.ret = Some(IoErr(remove_error_kind(remove)))]

\* A failed upload that is logged and then passed over.
upload_failed_ignored(L, filepath, io, kind) ==
    [L EXCEPT !.log = Append(@, Event("write_failed", filepath))]

\* The three ways the upload of a file ends before it is whole: File::create
\* fails, the stream of chunks fails, or the write of a chunk fails.  kind is
\* the kind of the io::Error of a failed create or write.
upload_failed(L, filepath, io, kind) ==
    IF io = "create_fails"
    THEN [L EXCEPT !.log = Append(@, Event("create_failed", filepath)),
                   !.ret = Some(IoErr(kind))]
    ELSE IF io = "stream_fails"
    THEN [L EXCEPT !.log = Append(@, Event("stream_failed", filepath)),
                   !.ret = Some(MultipartErr)]
    ELSE [L EXCEPT !.log = Append(@, Event("write_failed", filepath)),
                   !.ret = Some(IoErr(kind))]

\* A check that takes no image for a GIF.
IsGif_never(subtype) == FALSE

\* let is_gif = mime_type.subtype().as_ref() == "gif"
IsGif(subtype) == subtype = "gif"

\* A stored video that is recorded with the kind of an image.
video_media_as_image(written, sanitized_filename) ==
    [written EXCEPT !.media_url = Some(<<"/uploads/videos/">> \o sanitized_filename),
                    !.media_type = Some("Image")]

\* media_url = Some(format!("/uploads/videos/{}", ..)) and its kind.
video_media(written, sanitized_filename) ==
    [written EXCEPT !.media_url = Some(<<"/uploads/videos/">> \o sanitized_filename),
                    !.media_type = Some("Video")]

\* The "media" arm of create_thread's loop, for a field that has a file
\* name, up to File::create: the name is checked, the unique name is drawn
\* and the file is made.  L holds the handler's locals, the disk and the log;
\* L.upload names the file while the handler awaits its chunks.  field.io
\* and field.kind say what the file system answers.
media_open(field, L) ==
    LET filename == field.filename[1]
        mime_type == mime_guess(filename)
        unique_id == Decimal(L.uuid + 1)
        sanitized_filename == unique_id \o <<".", mime_type.subtype>>
        seen == [L EXCEPT !.log = Append(@, Event("media", filename))]
        named == [seen EXCEPT !.uuid = @ + 1]
    IN
    IF trim(filename) = <<>> THEN L
    ELSE IF mime_type.type = "image" THEN
        IF ~SupportedImage(mime_type.subtype)
        THEN [seen EXCEPT !.ret = Some(BadRequest("Unsupported image format"))]
        ELSE IF field.io = "create_fails"
        THEN upload_failed(named, <<IMAGE_UPLOAD_DIR>> \o sanitized_filename, field.io,
                           field.kind)
        ELSE [named EXCEPT !.files = @ \cup {<<IMAGE_UPLOAD_DIR>> \o sanitized_filename},
                           !.log = Append(@, Event("create", <<IMAGE_UPLOAD_DIR>>
                                                                \o sanitized_filename)),
                           !.upload = Some(sanitized_filename)]
    ELSE IF mime_type.type = "video" THEN
        IF ~SupportedVideo(mime_type.subtype)
        THEN [seen EXCEPT !.ret = Some(BadRequest("Unsupported video format"))]
        ELSE IF field.io = "create_fails"
        THEN upload_failed(named, <<VIDEO_UPLOAD_DIR>> \o sanitized_filename, field.io,
                           field.kind)
        ELSE [named EXCEPT !.files = @ \cup {<<VIDEO_UPLOAD_DIR>> \o sanitized_filename},
                           !.log = Append(@, Event("create", <<VIDEO_UPLOAD_DIR>>
                                                                \o sanitized_filename)),
                           !.upload = Some(sanitized_filename)]
    ELSE [seen EXCEPT !.ret = Some(BadRequest("Unsupported media type"))]

\* The "media" arm from the first chunk on, for the file L.upload names: the
\* chunks are written, and once the stream has ended an image is decoded and
\* removed or given its thumbnail.  field.io, field.decodable, field.remove
\* and field.thumb say what the stream, the file system and the image
\* decoder answer.
media_stream(field, L) ==
    LET mime_type == mime_guess(field.filename[1])
        sanitized_filename == L.upload[1]
        created == [L EXCEPT !.upload = None]
    IN
    IF mime_type.type = "image" THEN
        LET is_gif == IsGif(mime_type.subtype)
            filepath == <<IMAGE_UPLOAD_DIR>> \o sanitized_filename
            written == [created EXCEPT !.log = Append(@, Event("write", filepath))]
            thumb_filename == <<"thumb_">> \o sanitized_filename
            thumb_path == <<IMAGE_THUMB_DIR>> \o thumb_filename
        IN
        IF field.io # "ok" THEN upload_failed(created, filepath, field.io, field.kind)
        ELSE IF ~field.decodable THEN reject_undecodable(written, filepath, field.remove)
        ELSE IF is_gif THEN
            [written EXCEPT !.media_url = Some(<<"/uploads/images/">> \o sanitized_filename),
                            !.media_type = Some("Image")]
        ELSE IF field.thumb = "open_fails" THEN
            \* the second image::open is not Ok: the original, unless a URL is set
            LET failed == [written EXCEPT !.log = Append(@, Event("thumb_open_failed", filepath))]
            IN IF failed.media_url = None
               THEN [failed EXCEPT !.media_url = Some(<<"/uploads/images/">> \o sanitized_filename),
                                   !.media_type = Some("Image")]
               ELSE failed
        ELSE
            \* thumb.save(&thumb_path).ok(): the URL is the thumbnail's either way
            [written EXCEPT !.files = IF field.thumb = "ok" THEN @ \cup {thumb_path} ELSE @,
                            !.log = Append(@, Event(IF field.thumb = "ok" THEN "thumb"
                                                    ELSE "thumb_save_failed", thumb_path)),
                            !.media_url = Some(<<"/thumbs/images/">> \o thumb_filename),
                            !.media_type = Some("Image")]
    ELSE
        LET filepath == <<VIDEO_UPLOAD_DIR>> \o sanitized_filename
            written == [created EXCEPT !.log = Append(@, Event("write", filepath))]
        IN
        IF field.io # "ok" THEN upload_failed(created, filepath, field.io, field.kind)
        ELSE video_media(written, sanitized_filename)

\* One turn of create_thread's loop over the multipart fields, up to the
\* first await that follows a change of the disk: the whole turn of a text
\* field, and the turn of a media field up to the file it makes.  field.data
\* holds the chunks of a text field, each one the bytes that came together;
\* every chunk is decoded by itself and pushed onto the text.
field_turn(field, L) ==
    IF field.name = None THEN L
    ELSE IF field.name = Some("title") THEN
        IF field.io = "stream_fails" THEN [L EXCEPT !.ret = Some(MultipartErr)]
        ELSE [L EXCEPT !.title = push_chunks(@, field.data)]
    ELSE IF field.name = Some("message") THEN
        IF field.io = "stream_fails" THEN [L EXCEPT !.ret = Some(MultipartErr)]
        ELSE [L EXCEPT !.message = push_chunks(@, field.data)]
    ELSE IF field.name = Some("media") THEN
        IF field.filename = None THEN L ELSE media_open(field, L)
    ELSE L

\* ----------------------------------------------------------- create_thread
\* The handler awaits the fields of its payload, the chunks of each field and
\* the blocking file operations; the server handles other requests meanwhile.
\* It is one step from an await to the next one that follows a change of the
\* disk or of its position in the payload, and one step for each access to
\* the store and to the clock.

\* title.trim().is_empty() || message.trim().is_empty()
empty_form(title, message) == trim(title) = <<>> \/ trim(message) = <<>>

\* An id that does not count the threads stored.
next_thread_id_first(db) == 1

\* count_threads(&db) + 1
next_thread_id(db) == count_threads(db) + 1

\* The Thread create_thread builds.
new_thread(thread_id, title, message, now, media_url, media_type) ==
    [id |-> thread_id, title |-> trim(title), message |-> trim(message),
     last_updated |-> now, media_url |-> media_url, media_type |-> media_type]

\* The store once a create_thread has put its thread: the record built for
\* the id count_threads gives, inserted under its key.
stored_thread(db, title, message, now, media) ==
    Only({db_insert(db, thread_key(thread_id),
                    to_vec(new_thread(thread_id, title, message, now,
                                      media.media_url, media.media_type))) :
            thread_id \in {next_thread_id(db)}})

\* A create_thread request on connection n: payload holds the fields the
\* loop has yet to take, locals what it has gathered, upload the file it is
\* writing, log what it has done to the disk and the store.  request and
\* before keep the fields it came with and the store and the disk it found.
ThreadInFlight(n, payload, put_ok, db, disk, names) ==
    [op |-> "create_thread", n |-> n, parent_id |-> 0,
     request |-> payload, before |-> [store |-> db, files |-> disk, uuid |-> names],
     payload |-> payload,
     locals |-> [title |-> <<>>, message |-> <<>>, media_url |-> None, media_type |-> None],
     upload |-> None, log |-> <<>>,
     message |-> <<>>, put_ok |-> put_ok, touch_ok |-> TRUE,
     pc |-> IF payload = <<>> THEN "count" ELSE "field",
     id |-> 0, now |-> None, record |-> None, thread |-> None,
     status |-> 0, body |-> "", put_at |-> 0, touch_at |-> 0]

\* The number of writes the requests in flight have made to the store.
Writes(fl) ==
    Cardinality({i \in DOMAIN fl : fl[i].put_at > 0})
        + Cardinality({i \in DOMAIN fl : fl[i].touch_at > 0})

\* The handler returns: the request is answered.
Done(r, status) == [r EXCEPT !.pc = "done", !.status = status]

\* The locals of request i, with the disk as it is now.
handler_state(i) ==
    [title |-> inflight[i].locals.title, message |-> inflight[i].locals.message,
     media_url |-> inflight[i].locals.media_url, media_type |-> inflight[i].locals.media_type,
     files |-> files, uuid |-> uuid, log |-> inflight[i].log, ret |-> None,
     upload |-> inflight[i].upload]

\* Request i after a step of its loop that left L: answered when the step
\* returned, awaiting the chunks of the file it made, or at the next field.
after_turn(r, L) ==
    Only({IF L.ret # None
          THEN [Done(kept, L.ret[1].status) EXCEPT !.body = L.ret[1].body]
          ELSE IF L.upload # None
          THEN [kept EXCEPT !.pc = "stream"]
          ELSE [kept EXCEPT !.payload = Tail(r.payload),
                            !.pc = IF Tail(r.payload) = <<>> THEN "count" ELSE "field"] :
            kept \in {[r EXCEPT !.locals = [title |-> L.title, message |-> L.message,
                                            media_url |-> L.media_url,
                                            media_type |-> L.media_type],
                                !.upload = L.upload, !.log = L.log]}})

\* create_thread: one turn of the loop over the fields of the payload, up to
\* the file it makes.  The handler awaits the next field, or the first chunk
\* of the file, after it.
thread_field(i) ==
    /\ inflight[i].op = "create_thread" /\ inflight[i].pc = "field"
    /\ \E L \in {field_turn(Head(inflight[i].payload), handler_state(i))} :
          /\ files' = L.files
          /\ uuid' = L.uuid
          /\ inflight' = [inflight EXCEPT ![i] = after_turn(inflight[i], L)]
    /\ UNCHANGED <<store, clock, posted, resp>>

\* create_thread: the chunks of the file the turn has made, and what follows
\* the last of them before the handler awaits the next field.
thread_stream(i) ==
    /\ inflight[i].op = "create_thread" /\ inflight[i].pc = "stream"
    /\ \E L \in {media_stream(Head(inflight[i].payload), handler_state(i))} :
          /\ files' = L.files
          /\ uuid' = L.uuid
          /\ inflight' = [inflight EXCEPT ![i] = after_turn(inflight[i], L)]
    /\ UNCHANGED <<store, clock, posted, resp>>

\* create_thread after the loop: the check of the texts and
\* count_threads(&db) + 1.
thread_count(i) ==
    /\ inflight[i].op = "create_thread" /\ inflight[i].pc = "count"
    /\ inflight' =
         [inflight EXCEPT ![i] =
             IF empty_form(inflight[i].locals.title, inflight[i].locals.message)
             THEN [Done(@, 400) EXCEPT !.body = "Title and Message cannot be empty"]
             ELSE [@ EXCEPT !.pc = "now", !.id = next_thread_id(store)]]
    /\ UNCHANGED <<store, files, clock, uuid, posted, resp>>

\* create_thread: Thread { .., last_updated: Utc::now().timestamp(), .. }.
thread_now(i) ==
    /\ inflight[i].op = "create_thread" /\ inflight[i].pc = "now"
    /\ inflight' =
         [inflight EXCEPT ![i] =
             [@ EXCEPT !.pc = "put",
                       !.now = Some(clock),
                       !.record = Some(new_thread(inflight[i].id, inflight[i].locals.title,
                                                  inflight[i].locals.message, clock,
                                                  inflight[i].locals.media_url,
                                                  inflight[i].locals.media_type))]]
    /\ UNCHANGED <<store, files, clock, uuid, posted, resp>>

\* create_thread: db.insert(key, value) and the response.
thread_put(i) ==
    /\ inflight[i].op = "create_thread" /\ inflight[i].pc = "put"
    /\ \E key \in {thread_key(inflight[i].id)} :
          IF inflight[i].put_ok
          THEN /\ store' = db_insert(store, key, to_vec(inflight[i].record[1]))
               /\ inflight' = [inflight EXCEPT ![i] =
                                  [Done(@, 303) EXCEPT
                                      !.put_at = Writes(inflight) + 1,
                                      !.log = Append(inflight[i].log, Event("put", key))]]
          ELSE /\ store' = store
               /\ inflight' = [inflight EXCEPT ![i] =
                                  [Done(@, 500) EXCEPT
                                      !.body = "Failed to create thread",
                                      !.log = Append(inflight[i].log, Event("put_failed", key))]]
    /\ UNCHANGED <<files, clock, uuid, posted, resp>>

\* What create_thread answered on connection i, with the request, the texts
\* the handler gathered from it and what it did.
answer(r) ==
    [op |-> "create_thread", request |-> r.request,
     title |-> r.locals.title, message |-> r.locals.message,
     now |-> r.now, media_url |-> r.locals.media_url, media_type |-> r.locals.media_type,
     status |-> r.status, body |-> r.body, log |-> r.log, id |-> r.id, before |-> r.before]

\* ------------------------------------------------------------- view_thread

\* serde-decoded thread under "thread_<id>", as view_thread looks it up
get_thread(db, thread_id) ==
    LET bytes == db_get(db, thread_key(thread_id))
    IN IF bytes = None THEN None ELSE from_slice_Thread(bytes[1])

\* GET /thread/{id}
view_thread(thread_id) ==
    /\ resp' = LET thread == get_thread(store, thread_id)
               IN IF thread = None
                  THEN [op |-> "view_thread", thread_id |-> thread_id, status |-> 404,
                        body |-> "Thread Not Found"]
                  ELSE [op |-> "view_thread", thread_id |-> thread_id, status |-> 200,
                        thread |-> thread[1], replies |-> get_replies(store, thread_id)]
    /\ UNCHANGED <<store, files, clock, uuid, posted, inflight>>

\* ---------------------------------------------------------------- homepage

PAGE_SIZE == 10
I32_MAX == 2147483647

\* A stable sort by last_updated, latest first:
\* threads.sort_by(|a, b| b.last_updated.cmp(&a.last_updated))
RECURSIVE insert_sorted(_, _)
insert_sorted(sorted, t) ==
    IF sorted = <<>> THEN <<t>>
    ELSE IF Head(sorted).last_updated >= t.last_updated
         THEN <<Head(sorted)>> \o insert_sorted(Tail(sorted), t)
         ELSE <<t>> \o sorted

\* The list as the store scan returned it, the sort left out.
unsorted(threads) == threads

RECURSIVE sort_by_last_updated(_)
sort_by_last_updated(threads) ==
    IF threads = <<>> THEN <<>>
    ELSE Only({insert_sorted(sorted, threads[Len(threads)]) :
                 sorted \in {sort_by_last_updated(SubSeq(threads, 1, Len(threads) - 1))}})

Max(a, b) == IF a >= b THEN a ELSE b
Min(a, b) == IF a <= b THEN a ELSE b

\* (total_threads as f64 / page_size as f64).ceil() as i32
total_pages_of(total_threads) == (total_threads + PAGE_SIZE - 1) \div PAGE_SIZE

\* A page number that is raised to 1 and never lowered to total_pages.
clamp_page_unbounded(query_page, total_pages) ==
    Max(IF query_page = None THEN 1 ELSE query_page[1], 1)

\* The page homepage shows for ?page=query_page: unwrap_or(1).max(1), then
\* the clamp to total_pages.
clamp_page(query_page, total_pages) ==
    LET page_number == Max(IF query_page = None THEN 1 ELSE query_page[1], 1)
    IN IF page_number > total_pages /\ total_pages > 0 THEN total_pages ELSE page_number

\* GET /?page=..  The slice threads[start_index..end_index] panics when
\* start_index > end_index or end_index > len (a negative i32 is, as usize,
\* beyond every length); (page_number - 1) * page_size
\* overflows i32 only with no thread stored (the page is clamped otherwise):
\* a debug build panics on the overflow, a release build wraps to an index
\* that is not 0 and panics on the slice, since end_index is then 0.
homepage_page(threads, query_page) ==
    LET total_threads == Len(threads)
        total_pages == total_pages_of(total_threads)
        page_number == clamp_page(query_page, total_pages)
        overflow == page_number - 1 > I32_MAX \div PAGE_SIZE
        start_index == (page_number - 1) * PAGE_SIZE
        end_index == Min(start_index + PAGE_SIZE, total_threads)
        req == [op |-> "homepage", page |-> query_page, total_threads |-> total_threads,
                total_pages |-> total_pages, page_number |-> page_number]
    IN
    IF overflow
    THEN req @@ [status |-> 0, panic |-> "overflow or slice index"]
    ELSE IF start_index < 0 \/ start_index > end_index \/ end_index > total_threads
    THEN req @@ [status |-> 0, panic |-> "slice index",
                 start_index |-> start_index, end_index |-> end_index]
    ELSE req @@ [status |-> 200, panic |-> "",
                 start_index |-> start_index, end_index |-> end_index,
                 shown |-> [i \in 1..(end_index - start_index) |-> threads[start_index + i].id]]

\* get_all_threads, the sort, then the page of the sorted list.
homepage_response(db, query_page) ==
    Only({homepage_page(threads, query_page) :
            threads \in {sort_by_last_updated(get_all_threads(db))}})

homepage(query_page) ==
    /\ resp' = homepage_response(store, query_page)
    /\ UNCHANGED <<store, files, clock, uuid, posted, inflight>>

\* ------------------------------------------------------------------- clock

Tick(max) ==
    /\ clock < max
    /\ clock' = clock + 1
    /\ UNCHANGED <<store, files, uuid, posted, resp, inflight>>

\* ----------------------------------------------------------- specification

NoResponse == [op |-> "none", status |-> 0]

\* let mut media_url: Option<String> = None; let mut media_type = None;
NoMedia == [media_url |-> None, media_type |-> None]

Init ==
    /\ store = << >>
    /\ files = {}
    /\ clock \in 0..MaxClock
    /\ uuid = 0
    /\ posted = << >>
    /\ resp = NoResponse
    /\ inflight = << >>

ReplyCount(db) == Cardinality({k \in DOMAIN db : starts_with(k, REPLY_PREFIX)})

\* The multipart fields requests are made of.  The data of a text field are
\* its chunks, each the bytes that reach the handler together.
TextField(name, data) ==
    [name |-> Some(name), filename |-> None, data |-> data,
     io |-> "ok", kind |-> "Other", decodable |-> TRUE, thumb |-> "ok", remove |-> "ok"]

MediaField(filename, io, decodable, thumb) ==
    [name |-> Some("media"), filename |-> filename, data |-> <<>>,
     io |-> io, kind |-> "Other", decodable |-> decodable, thumb |-> thumb,
     remove |-> "ok"]

Upload(filename) == MediaField(Some(filename), "ok", TRUE, "ok")

ValidTitle == <<NBSP, "t", " ">>
ValidMessage == <<"m", "\r", "\n">>
BlankTitle == <<" ", "\t", "\f", VT, NEL>>

\* Texts that come whole, each field in one chunk.
ValidText == <<TextField("title", Whole(ValidTitle)), TextField("message", Whole(ValidMessage))>>
ValidTexts == {ValidText}

EmptyTitle == <<TextField("title", <<>>), TextField("message", Whole(<<"m", "\n">>))>>
BlankMessage ==
    <<TextField("title", Whole(<<" ", "t", " ">>)), TextField("message", Whole(<<"\r", "\n">>))>>

EmptyTexts ==
    {EmptyTitle, BlankMessage,
     <<TextField("title", Whole(BlankTitle)), TextField("message", Whole(<<"m", "\n">>))>>,
     <<TextField("title", Whole(<<" ", "t", " ">>)), TextField("message", <<>>)>>}

\* Texts that come in two chunks: the valid title cut between the two bytes
\* of its no-break space (c2 | a0 74 20) and after them (c2 a0 | 74 20), the
\* valid message cut after its first byte, and the blank title cut between
\* the two bytes of its next-line character (20 09 0c 0b c2 | 85).
CutTexts ==
    {<<TextField("title", CutAt(ValidTitle, 1)), TextField("message", Whole(ValidMessage))>>,
     <<TextField("title", CutAt(ValidTitle, 2)), TextField("message", CutAt(ValidMessage, 1))>>,
     <<TextField("title", CutAt(BlankTitle, 5)), TextField("message", Whole(<<"m", "\n">>))>>}

\* Names no file is made for.
IgnoredOrRefused ==
    {MediaField(f, "ok", TRUE, "ok") :
        f \in {None, Some(<<>>), Some(<<" ">>), Some(<<"x", ".", "bmp">>),
               Some(<<"x", ".", "webm">>), Some(<<"x", ".", "txt">>), Some(<<"x">>),
               Some(<<".", ".">>), Some(<<"a", ".", "png", "/", "c">>)}}

\* Uploads that fail while the file is made or written.
FailedUploads ==
    {MediaField(Some(<<"x", ".", "png">>), io, TRUE, "ok") :
        io \in {"create_fails", "stream_fails", "write_fails"}}
    \cup {[MediaField(Some(<<"x", ".", "png">>), "create_fails", TRUE, "ok") EXCEPT !.kind = k] :
            k \in ErrorKinds}
    \cup {MediaField(Some(<<"x", ".", "mp4">>), "write_fails", TRUE, "ok")}

\* Uploads that are written whole: undecodable with each outcome of the
\* removal, or decodable with each outcome of the thumbnail.
WrittenUploads ==
    {MediaField(Some(f), "ok", FALSE, "ok") :
        f \in {<<"x", ".", "png">>, <<"x", ".", "gif">>}}
    \cup {[MediaField(Some(<<"x", ".", "png">>), "ok", FALSE, "ok") EXCEPT !.remove = r] :
            r \in {"denied", "gone", "isdir"}}
    \cup {Upload(<<"x", ".", "mp4">>), Upload(<<"x", ".", "gif">>),
          Upload(<<"y", ".", "x", ".", "jpg">>), Upload(<<"d", "/", "x", ".", "webp", "/">>)}
    \cup {MediaField(Some(<<"x", ".", "png">>), "ok", TRUE, th) :
            th \in {"ok", "open_fails", "save_fails"}}

MediaFields == IgnoredOrRefused \cup FailedUploads \cup WrittenUploads

\* A second media field after one that was stored.
SecondFields ==
    {Upload(<<"x", ".", "bmp">>), Upload(<<"x", ".", "gif">>),
     MediaField(Some(<<"x", ".", "png">>), "ok", FALSE, "ok"),
     MediaField(Some(<<"x", ".", "png">>), "ok", TRUE, "open_fails"),
     MediaField(Some(<<"x", ".", "mp4">>), "create_fails", TRUE, "ok")}

MediaParts ==
    {<<>>} \cup {<<f>> : f \in MediaFields}
    \cup {<<f, g>> : f \in {Upload(<<"x", ".", "png">>), Upload(<<"x", ".", "mp4">>)},
                     g \in SecondFields}

Request(payload, put_ok) == [payload |-> payload, put_ok |-> put_ok]

\* The odd shapes a multipart body can have.
OddRequests ==
    {Request(p, TRUE) : p \in
       {<<TextField("title", Whole(<<"t">>)), TextField("title", Whole(<<" ">>)),
          [TextField("other", Whole(<<"o">>)) EXCEPT !.name = None],
          TextField("other", Whole(<<"o">>)), TextField("message", Whole(<<"m">>))>>,
        <<TextField("message", Whole(<<"m">>))>>,
        <<[TextField("title", Whole(<<"t">>)) EXCEPT !.io = "stream_fails"],
          TextField("message", Whole(<<"m">>))>>}}

\* Requests with every kind of media part.
UploadRequests ==
    {Request(t \o media, TRUE) : t \in ValidTexts, media \in MediaParts}
    \cup {Request(t \o media, FALSE) :
            t \in ValidTexts, media \in {<<>>, <<Upload(<<"x", ".", "png">>)>>}}
    \cup {Request(t, TRUE) : t \in EmptyTexts \cup CutTexts}
    \cup {Request(<<Upload(<<"x", ".", "png">>)>> \o t, TRUE) : t \in {ValidText, EmptyTitle}}
    \cup {Request(t \o media, TRUE) :
            t \in {EmptyTitle, BlankMessage},
            media \in {<<Upload(<<"x", ".", "png">>)>>, <<Upload(<<"x", ".", "mp4">>)>>,
                       <<Upload(<<"x", ".", "bmp">>)>>,
                       <<MediaField(Some(<<"x", ".", "png">>), "ok", FALSE, "ok")>>,
                       <<MediaField(Some(<<"x", ".", "png">>), "write_fails", TRUE, "ok")>>}}
    \cup OddRequests

\* The requests of the board: texts that pass or fail, a store that refuses
\* the write, and an image that gets its thumbnail.
BoardRequests ==
    {Request(t, ok) : t \in ValidTexts, ok \in BOOLEAN}
    \cup {Request(t, TRUE) : t \in {EmptyTitle}}
    \cup {Request(<<Upload(<<"x", ".", "png">>)>> \o ValidText, TRUE)}

ReplyRequest(parent_id, message, put_ok, touch_ok) ==
    [parent_id |-> parent_id, message |-> message, put_ok |-> put_ok, touch_ok |-> touch_ok]

ReplyRequests ==
    {ReplyRequest(p, <<" ", "r", "\r", "\n">>, TRUE, ok) : p \in ParentInputs, ok \in BOOLEAN}
    \cup {ReplyRequest(p, <<"r">>, FALSE, TRUE) : p \in ParentInputs}
    \cup {ReplyRequest(1, m, TRUE, TRUE) : m \in {<<>>, <<"\f", NBSP, "\r", "\n">>}}

\* A create_thread request comes in on the one connection, once the request
\* before it has been answered.
CreateThread(requests, max_threads) ==
    \E r \in requests :
        /\ count_threads(store) < max_threads
        /\ uuid + Cardinality({i \in DOMAIN r.payload : r.payload[i].name = Some("media")}) <= MaxUuid
        /\ \A i \in DOMAIN inflight : inflight[i].pc = "done"
        /\ inflight' = <<ThreadInFlight(1, r.payload, r.put_ok, store, files, uuid)>>
        /\ UNCHANGED <<store, files, clock, uuid, posted, resp>>

CreateReply(requests, max_replies) ==
    /\ ReplyCount(store) < max_replies
    /\ \E r \in requests : create_reply(r.parent_id, r.message, r.put_ok, r.touch_ok)

ViewThread == \E thread_id \in ParentInputs : view_thread(thread_id)

Homepage(pages) == \E query_page \in pages : homepage(query_page)

\* The replies of the board, to its first two threads.
BoardReplies == {ReplyRequest(p, <<" ", "r", "\r", "\n">>, TRUE, TRUE) : p \in {1, 2}}

\* The board: threads, replies and lookups.  create_thread requests come one
\* after another, and the other requests are handled between the steps of
\* one.
Next ==
    \/ CreateThread(BoardRequests, MaxThreads)
    \/ \E i \in DOMAIN inflight : thread_field(i)
    \/ \E i \in DOMAIN inflight : thread_stream(i)
    \/ \E i \in DOMAIN inflight : thread_count(i)
    \/ \E i \in DOMAIN inflight : thread_now(i)
    \/ \E i \in DOMAIN inflight : thread_put(i)
    \/ CreateReply(BoardReplies, MaxBoardReplies)
    \/ ViewThread
    \/ Tick(MaxClock)

Spec == Init /\ [][Next]_vars

\* Thread creation with every kind of upload, one request after another, at
\* one reading of the clock.
InitUpload == Init /\ clock = MaxClock

NextUpload ==
    \/ CreateThread(UploadRequests, MaxThreads)
    \/ \E i \in DOMAIN inflight : thread_field(i)
    \/ \E i \in DOMAIN inflight : thread_stream(i)
    \/ \E i \in DOMAIN inflight : thread_count(i)
    \/ \E i \in DOMAIN inflight : thread_now(i)
    \/ \E i \in DOMAIN inflight : thread_put(i)

SpecUpload == InitUpload /\ [][NextUpload]_vars

\* The homepage of a board of many threads.  The boards are those that n
\* create_thread requests leave, all within one second or one second apart,
\* and those that a reply to one of n threads of the same second leaves.
RECURSIVE after_threads(_, _)
after_threads(n, step) ==
    IF n = 0 THEN << >>
    ELSE Only({stored_thread(db, ValidTitle, ValidMessage,
                             (n - 1) * step, NoMedia) :
                 db \in {after_threads(n - 1, step)}})

\* The boards homepage is asked for: n threads made at one clock reading, or
\* at n readings, or at one reading and then a reply to one of them.
InitHome ==
    /\ files = {}
    /\ uuid = 0
    /\ resp = NoResponse
    /\ inflight = << >>
    /\ \E n \in 0..MaxHomeThreads, step \in {0, 1} :
          \E db \in {after_threads(n, step)} :
             \/ /\ store = db
                /\ clock = n * step
                /\ posted = << >>
             \/ /\ step = 0
                /\ \E parent_id \in 1..n :
                      \E r \in {reply_result(db, 1, parent_id, <<"r">>, TRUE, TRUE)} :
                         /\ store = r.store
                         /\ clock = 1
                         /\ posted = (parent_id :> 1)

\* The replies and lookups of a board, handled one at a time.  The boards
\* are those that up to MaxThreads create_thread requests leave, all within
\* one second or one second apart.
InitReply ==
    /\ files = {}
    /\ uuid = 0
    /\ posted = << >>
    /\ resp = NoResponse
    /\ inflight = << >>
    /\ \E n \in 0..MaxThreads, step \in {0, 1} :
          /\ store = after_threads(n, step)
          /\ clock \in (IF n = 0 THEN 0 ELSE (n - 1) * step)..MaxClock

NextReply ==
    \/ CreateReply(ReplyRequests, MaxReplies)
    \/ ViewThread
    \/ Homepage({None, Some(0), Some(2)})
    \/ Tick(MaxClock)

SpecReply == InitReply /\ [][NextReply]_vars

Pages == {None, Some(-1), Some(0), Some(1), Some(2), Some(3), Some(4), Some(I32_MAX)}

NextHome == Homepage(Pages)

SpecHome == InitHome /\ [][NextHome]_vars

\* ------------------------------------------------------ concurrent requests
\* The workers of the server run handlers in parallel.  create_reply never
\* awaits, but another worker can reach the store or the clock between two
\* of its accesses, so here it is cut at each of them, as create_thread is
\* everywhere.

\* The n-th request in flight, a create_reply to parent_id.
ReplyInFlight(n, parent_id, put_ok, touch_ok) ==
    [op |-> "create_reply", n |-> n, parent_id |-> parent_id,
     payload |-> <<>>, locals |-> None, message |-> <<" ", "r", DigitChar(n), "\r", "\n">>,
     put_ok |-> put_ok, touch_ok |-> touch_ok,
     pc |-> "count", id |-> 0, record |-> None, thread |-> None,
     status |-> 0, put_at |-> 0, touch_at |-> 0]

\* create_reply up to the Reply it builds: the trim, the check of the
\* message and count_replies(&db, parent_id) + 1.
reply_count(i) ==
    /\ inflight[i].op = "create_reply" /\ inflight[i].pc = "count"
    /\ inflight' =
         [inflight EXCEPT ![i] =
             IF trim(inflight[i].message) = <<>> THEN Done(@, 400)
             ELSE [@ EXCEPT !.pc = "put",
                            !.id = count_replies(store, inflight[i].parent_id) + 1,
                            !.record = Some([id |-> count_replies(store, inflight[i].parent_id) + 1,
                                             message |-> trim(inflight[i].message)])]]
    /\ UNCHANGED <<store, files, clock, uuid, posted, resp>>

\* A reply put whose failure is passed over: the handler goes on to the touch.
reply_put_unchecked(i) ==
    /\ inflight[i].op = "create_reply" /\ inflight[i].pc = "put"
    /\ IF inflight[i].put_ok
       THEN /\ store' = db_insert(store, reply_key(inflight[i].parent_id, inflight[i].id),
                                  to_vec(inflight[i].record[1]))
            /\ inflight' = [inflight EXCEPT ![i] = [@ EXCEPT !.pc = "get",
                                                             !.put_at = Writes(inflight) + 1]]
       ELSE /\ store' = store
            /\ inflight' = [inflight EXCEPT ![i] = [@ EXCEPT !.pc = "get"]]
    /\ UNCHANGED <<files, clock, uuid, posted, resp>>

\* create_reply: db.insert(key, value) of the reply.
reply_put(i) ==
    /\ inflight[i].op = "create_reply" /\ inflight[i].pc = "put"
    /\ IF inflight[i].put_ok
       THEN /\ store' = db_insert(store, reply_key(inflight[i].parent_id, inflight[i].id),
                                  to_vec(inflight[i].record[1]))
            /\ inflight' = [inflight EXCEPT ![i] = [@ EXCEPT !.pc = "get",
                                                             !.put_at = Writes(inflight) + 1]]
       ELSE /\ store' = store
            /\ inflight' = [inflight EXCEPT ![i] = Done(@, 500)]
    /\ UNCHANGED <<files, clock, uuid, posted, resp>>

\* create_reply: db.get(&thread_key) and the decoding of the thread.
reply_get(i) ==
    /\ inflight[i].op = "create_reply" /\ inflight[i].pc = "get"
    /\ \E thread \in {get_thread(store, inflight[i].parent_id)} :
          /\ inflight' = [inflight EXCEPT ![i] =
                             IF thread = None THEN Done(@, 303)
                             ELSE [@ EXCEPT !.pc = "now", !.thread = thread]]
          /\ posted' = IF thread = None
                       THEN [p \in DOMAIN posted \cup {inflight[i].parent_id} |->
                                IF p = inflight[i].parent_id THEN Posted(p) + 1 ELSE posted[p]]
                       ELSE posted
    /\ UNCHANGED <<store, files, clock, uuid, resp>>

\* create_reply: thread.last_updated = Utc::now().timestamp().
reply_now(i) ==
    /\ inflight[i].op = "create_reply" /\ inflight[i].pc = "now"
    /\ inflight' = [inflight EXCEPT ![i] = [@ EXCEPT !.pc = "touch",
                                                     !.thread = Some(touch(inflight[i].thread[1], clock))]]
    /\ UNCHANGED <<store, files, clock, uuid, posted, resp>>

\* create_reply: db.insert(thread_key, updated).ok() and the response.
reply_touch(i) ==
    /\ inflight[i].op = "create_reply" /\ inflight[i].pc = "touch"
    /\ IF inflight[i].touch_ok
       THEN /\ store' = db_insert(store, thread_key(inflight[i].parent_id),
                                  to_vec(inflight[i].thread[1]))
            /\ inflight' = [inflight EXCEPT ![i] = [Done(@, 303) EXCEPT
                                                       !.touch_at = Writes(inflight) + 1]]
       ELSE /\ store' = store
            /\ inflight' = [inflight EXCEPT ![i] = Done(@, 303)]
    /\ posted' = [p \in DOMAIN posted \cup {inflight[i].parent_id} |->
                     IF p = inflight[i].parent_id THEN Posted(p) + 1 ELSE posted[p]]
    /\ UNCHANGED <<files, clock, uuid, resp>>

\* The uploads a concurrent create_thread carries before its texts: none, a
\* video, an image that cannot be decoded, an image that gets a thumbnail.
RaceMedia ==
    {<<>>, <<Upload(<<"x", ".", "mp4">>)>>,
     <<MediaField(Some(<<"x", ".", "png">>), "ok", FALSE, "ok")>>,
     <<Upload(<<"x", ".", "png">>)>>}

\* A board of one thread with a video, and the requests that have come in:
\* some create_thread, the first of them with or without an upload, and some
\* create_reply to thread 1.
InitRace ==
    /\ store = stored_thread(<< >>, ValidTitle, ValidMessage,
                             0, video_media(NoMedia, <<"1", ".", "mp4">>))
    /\ files = {<<VIDEO_UPLOAD_DIR, "1", ".", "mp4">>}
    /\ uuid = 1
    /\ clock = 0
    /\ posted = << >>
    /\ resp = NoResponse
    /\ \E threads \in 0..MaxRace :
          \E replies \in 0..(MaxRace - threads) :
             \E put_ok, touch_ok \in [1..(threads + replies) -> BOOLEAN] :
                /\ \A n \in 1..threads : touch_ok[n]
                /\ \E media \in RaceMedia :
                      /\ threads = 0 => media = <<>>
                      /\ inflight =
                           [n \in 1..(threads + replies) |->
                               IF n <= threads
                               THEN ThreadInFlight(n,
                                        (IF n = 1 THEN media ELSE <<>>)
                                            \o <<TextField("title",
                                                           Whole(<<"t", DigitChar(n)>>)),
                                                 TextField("message", Whole(ValidMessage))>>,
                                        put_ok[n], store, files, uuid)
                               ELSE ReplyInFlight(n, 1, put_ok[n], touch_ok[n])]

NextRace ==
    \/ \E i \in DOMAIN inflight : thread_field(i)
    \/ \E i \in DOMAIN inflight : thread_stream(i)
    \/ \E i \in DOMAIN inflight : thread_count(i)
    \/ \E i \in DOMAIN inflight : thread_now(i)
    \/ \E i \in DOMAIN inflight : thread_put(i)
    \/ \E i \in DOMAIN inflight : reply_count(i)
    \/ \E i \in DOMAIN inflight : reply_put(i)
    \/ \E i \in DOMAIN inflight : reply_get(i)
    \/ \E i \in DOMAIN inflight : reply_now(i)
    \/ \E i \in DOMAIN inflight : reply_touch(i)
    \/ Tick(MaxClock) /\ UNCHANGED inflight

SpecRace == InitRace /\ [][NextRace]_vars

\* ------------------------------------------------------------- properties

\* The thread records of a store, by key.
ThreadRecords(db) == [k \in prefix_keys(db, THREAD_PREFIX) |-> db[k]]

\* The ids of the threads of a store.
ThreadIds(db) == {t.id : t \in {from_slice_Thread(db[k])[1] : k \in prefix_keys(db, THREAD_PREFIX)}}

\* The keys of the replies written for one parent.
RepliesOf(db, p) == {k \in DOMAIN db : \E id \in 1..Cardinality(DOMAIN db) : k = reply_key(p, id)}

\* The create_thread that the one connection of Spec and SpecUpload has
\* answered and that no other has followed yet: its response, with what the
\* request was and what it found and did.
Answered ==
    IF inflight # << >> /\ inflight[1].op = "create_thread" /\ inflight[1].pc = "done"
    THEN answer(inflight[1])
    ELSE NoResponse

\* The bytes the chunks of a field make, in order.
RECURSIVE concat(_)
concat(chunks) == IF chunks = <<>> THEN <<>> ELSE Head(chunks) \o concat(Tail(chunks))

\* The bytes a request carries in its fields of one name, in order.
RECURSIVE field_bytes(_, _)
field_bytes(payload, name) ==
    IF payload = <<>> THEN <<>>
    ELSE (IF Head(payload).name = Some(name) THEN concat(Head(payload).data) ELSE <<>>)
         \o field_bytes(Tail(payload), name)

\* The text a client sent under one name: the characters its bytes encode,
\* however the stream was cut into chunks.
text_sent(payload, name) == from_utf8_lossy(field_bytes(payload, name))

\* C1: a create_thread request with a title and a message that are not
\* empty once trimmed and whose store write succeeds (it is answered 303) is
\* given an id of at least 1, and looking up "thread_<id>" returns a thread
\* with that id, the trimmed title and the trimmed message of the request,
\* the clock reading of the creation as last_updated and the media url and
\* kind of the request.
C1_CreatedThreadIsStored ==
    (/\ Answered.op = "create_thread" /\ Answered.status = 303
     /\ trim(text_sent(Answered.request, "title")) # <<>>
     /\ trim(text_sent(Answered.request, "message")) # <<>>) =>
        /\ Answered.id >= 1
        /\ get_thread(store, Answered.id) =
               Some([id |-> Answered.id,
                     title |-> trim(text_sent(Answered.request, "title")),
                     message |-> trim(text_sent(Answered.request, "message")),
                     last_updated |-> Answered.now[1],
                     media_url |-> Answered.media_url, media_type |-> Answered.media_type])

\* C2: for every thread p, after any sequence of create_thread and
\* create_reply requests run one at a time, get_replies(p) has exactly N
\* entries, N the number of successful replies posted to p (none when N = 0),
\* and their ids are exactly 1..N.
C2_RepliesNumbered ==
    \A p \in ThreadIds(store) :
        LET replies == get_replies(store, p)
        IN /\ Len(replies) = Posted(p)
           /\ {replies[i].id : i \in DOMAIN replies} = 1..Posted(p)

\* C3: in every reachable state and for every parent id p, the keys matched
\* by the scan prefix of p, "reply_" and the decimal of p, are exactly the
\* keys of the replies created with parent_id = p, so get_replies(p) and
\* count_replies(p) never include a reply of another parent.
C3_PrefixMatchesOwnReplies ==
    \A p \in ParentInputs :
        /\ prefix_keys(store, reply_prefix(p)) = RepliesOf(store, p)
        /\ count_replies(store, p) = Posted(p)

\* C4: a create_reply whose parent_id names no thread record is answered
\* not-found and writes no reply, so that every stored reply has a parent
\* thread record.  (An empty message is a validation error first, and a
\* store that refuses the write is a server error.)
C4_NoOrphanReply ==
    /\ (/\ resp.op = "create_reply"
        /\ trim(resp.req.message) # <<>>
        /\ resp.status # 500
        /\ get_thread(store, resp.req.parent_id) = None) => resp.status = 404
    /\ \A k \in DOMAIN store :
           starts_with(k, REPLY_PREFIX) => \E p \in ThreadIds(store) : k \in RepliesOf(store, p)

\* C5: a successful create_reply to thread p leaves the last_updated of p at
\* or above its value before the reply, at that value or at the clock reading
\* of the reply, and leaves every other thread as it was.
C5_ReplyTouchesOnlyParent ==
    [][(resp'.op = "create_reply" /\ resp'.status = 303) =>
           \A id \in ThreadIds(store) :
               LET before == get_thread(store, id)[1]
                   after == get_thread(store', id)
               IN /\ after # None
                  /\ IF id = resp'.req.parent_id
                     THEN /\ after[1].last_updated >= before.last_updated
                          /\ after[1].last_updated \in {before.last_updated, resp'.req.now}
                          /\ after[1] = [before EXCEPT !.last_updated = after[1].last_updated]
                     ELSE after[1] = before]_vars

\* A reply has moved the older of two threads ahead of the newer one.
C5_Witness ==
    /\ resp.op = "create_reply" /\ resp.status = 303
    /\ resp.req.parent_id = 1
    /\ get_thread(store, 1) # None /\ get_thread(store, 2) # None
    /\ get_thread(store, 1)[1].last_updated = resp.req.now
    /\ get_thread(store, 2)[1].last_updated < get_thread(store, 1)[1].last_updated

\* C6: a create_thread request whose title or message is empty or only
\* whitespace is rejected, with or without a media attachment, valid or not,
\* and the thread records of the store are the same after it as before.
C6_EmptyFormRejected ==
    (/\ Answered.op = "create_thread"
     /\ \/ trim(text_sent(Answered.request, "title")) = <<>>
        \/ trim(text_sent(Answered.request, "message")) = <<>>) =>
        /\ Answered.status # 303
        /\ ThreadRecords(store) = ThreadRecords(Answered.before.store)

\* C7: with n >= 1 threads stored and any requested page p (absent, zero,
\* negative or positive), homepage shows the threads at positions
\* [(e-1)*10, min(e*10, n)) of the list sorted by recency, where e = 1 if p is
\* absent or below 1, e = ceil(n/10) if p is above ceil(n/10), and e = p
\* otherwise.
C7_PageShown ==
    (resp.op = "homepage" /\ resp.total_threads >= 1) =>
        LET n == resp.total_threads
            p == resp.page
            last == CHOOSE c \in 1..n : c * 10 >= n /\ (c - 1) * 10 < n
            e == IF p = None \/ p[1] < 1 THEN 1 ELSE IF p[1] > last THEN last ELSE p[1]
            sorted == sort_by_last_updated(get_all_threads(store))
            from == (e - 1) * 10
            to == Min(e * 10, n)
        IN /\ Len(sorted) = n
           /\ \A i \in 1..(n - 1) : sorted[i].last_updated >= sorted[i + 1].last_updated
           /\ resp.status = 200
           /\ resp.shown = [i \in 1..(to - from) |-> sorted[from + i].id]

\* With 25 threads, page 4 shows the 5 threads of page 3.
C7_Witness ==
    /\ resp.op = "homepage" /\ resp.status = 200
    /\ resp.total_threads = 25 /\ resp.page = Some(4)
    /\ resp.page_number = 3 /\ Len(resp.shown) = 5

\* C8: with any number n >= 0 of threads stored, n = 0 included, and any
\* requested page, homepage computes slice bounds 0 <= start <= end <= n and
\* completes with a listing, never failing.
C8_SliceInBounds ==
    resp.op = "homepage" =>
        /\ resp.status = 200
        /\ 0 <= resp.start_index
        /\ resp.start_index <= resp.end_index
        /\ resp.end_index <= resp.total_threads

\* The media types create_thread takes.
Permitted(mime) ==
    \/ mime.type = "image" /\ mime.subtype \in {"jpeg", "png", "gif", "webp"}
    \/ mime.type = "video" /\ mime.subtype = "mp4"

\* C9: a media field whose filename classifies to anything but
\* image/{jpeg, png, gif, webp} or video/mp4 makes create_thread reject the
\* request before any file is created for that field, and no thread record is
\* written.
C9_UnsupportedMediaRejected ==
    Answered.op = "create_thread" =>
        \A i \in DOMAIN Answered.log :
            (Answered.log[i].ev = "media" /\ ~Permitted(mime_guess(Answered.log[i].path))) =>
                /\ Answered.status = 400
                /\ i = Len(Answered.log)
                /\ files = Answered.before.files
                              \cup {Answered.log[j].path : j \in {j \in 1..(i - 1) :
                                       Answered.log[j].ev \in {"create", "thumb"}}}
                /\ uuid = Answered.before.uuid
                             + Cardinality({j \in 1..(i - 1) : Answered.log[j].ev = "create"})
                /\ ThreadRecords(store) = ThreadRecords(Answered.before.store)

\* x.bmp is refused with nothing on the disk.
C9_Witness ==
    /\ Answered.op = "create_thread" /\ Answered.status = 400
    /\ Answered.body = "Unsupported image format"
    /\ Answered.log = <<Event("media", <<"x", ".", "bmp">>)>>
    /\ files = {}

\* C10, as stated: when an uploaded image with a permitted extension cannot
\* be decoded once its stream is complete, create_thread rejects the
\* request, the file it wrote under the images-upload directory is gone when
\* the request returns, and no thread record is written.
C10_UndecodableImageRemoved ==
    Answered.op = "create_thread" =>
        \A i \in DOMAIN Answered.log :
            Answered.log[i].ev = "undecodable" =>
                /\ Answered.status # 303
                /\ Head(Answered.log[i].path) = IMAGE_UPLOAD_DIR
                /\ \E j \in 1..(i - 1) : Answered.log[j] = Event("write", Answered.log[i].path)
                /\ Answered.log[i].path \notin files
                /\ ThreadRecords(store) = ThreadRecords(Answered.before.store)

\* C10, amended: when an uploaded image with a permitted extension cannot be
\* decoded once its stream is complete, create_thread writes no thread
\* record and removes the file it wrote under the images-upload directory;
\* when the removal succeeds the request is answered 400 "Invalid image
\* file" and the file is gone, and when the removal fails the request is
\* answered with the I/O error (404, 403 or 500 by its kind) and no other
\* file of the disk changes.
C10_UndecodableImageRejected ==
    Answered.op = "create_thread" =>
        \A i \in DOMAIN Answered.log :
            Answered.log[i].ev = "undecodable" =>
                \E path \in {Answered.log[i].path} :
                   /\ Head(path) = IMAGE_UPLOAD_DIR
                   /\ \E j \in 1..(i - 1) : Answered.log[j] = Event("write", path)
                   /\ i + 1 = Len(Answered.log)
                   /\ store = Answered.before.store
                   /\ files \ {path} =
                         Answered.before.files
                            \cup {Answered.log[j].path : j \in {j \in 1..(i - 1) :
                                     /\ Answered.log[j].ev \in {"create", "thumb"}
                                     /\ Answered.log[j].path # path}}
                   /\ Answered.log[i + 1].ev \in {"remove", "remove_failed"}
                   /\ Answered.log[i + 1].ev = "remove" =>
                         /\ Answered.status = 400
                         /\ Answered.body = "Invalid image file"
                         /\ path \notin files
                   /\ Answered.log[i + 1].ev = "remove_failed" =>
                         /\ Answered.status \in {IoErr(kind).status : kind \in ErrorKinds}
                         /\ Answered.body # "Invalid image file"

\* An undecodable x.png is refused after a whole upload of it and its file is
\* gone, while the file of an earlier undecodable upload, whose removal
\* failed, is still on the disk; the board has no thread.
C10_Witness ==
    /\ Answered.op = "create_thread" /\ Answered.status = 400
    /\ Answered.body = "Invalid image file"
    /\ \E i \in DOMAIN Answered.log :
           /\ Answered.log[i].ev = "undecodable"
           /\ Answered.log[i].path \notin files
           /\ Answered.log[i].path = <<IMAGE_UPLOAD_DIR, "2", ".", "png">>
    /\ files = {<<IMAGE_UPLOAD_DIR, "1", ".", "png">>}
    /\ store = << >>

\* The file a media URL is served from: fs::Files::new("/uploads/images",
\* IMAGE_UPLOAD_DIR) and the like.
served_file(url) ==
    IF Head(url) = "/uploads/images/" THEN <<IMAGE_UPLOAD_DIR>> \o Tail(url)
    ELSE IF Head(url) = "/uploads/videos/" THEN <<VIDEO_UPLOAD_DIR>> \o Tail(url)
    ELSE <<IMAGE_THUMB_DIR>> \o Tail(url)

\* The last field of a request that was an upload: no media field follows event i.
LastUpload(log, i) == \A j \in DOMAIN log : j > i => log[j].ev # "media"

\* C11: for a valid image upload that is not a GIF, when the thumbnail is
\* generated (decoded, resized, saved) the media URL recorded is the
\* thumbnail's and the original and the thumbnail both exist; when any step
\* of the generation fails the media URL recorded is the original's.  The
\* kind is Image either way.
C11_ThumbnailOrOriginal ==
    (Answered.op = "create_thread" /\ Answered.status = 303) =>
        \A i \in DOMAIN Answered.log :
            /\ (Answered.log[i].ev = "thumb" /\ LastUpload(Answered.log, i)) =>
                  /\ Answered.media_type = Some("Image")
                  /\ Answered.media_url # None
                  /\ served_file(Answered.media_url[1]) = Answered.log[i].path
                  /\ Answered.log[i].path \in files
                  /\ Answered.log[i - 1].path \in files
            /\ (Answered.log[i].ev \in {"thumb_open_failed", "thumb_save_failed"}
                /\ LastUpload(Answered.log, i)) =>
                  /\ Answered.media_type = Some("Image")
                  /\ Answered.media_url # None
                  /\ served_file(Answered.media_url[1]) = Answered.log[i - 1].path
                  /\ Answered.log[i - 1].path \in files

\* C12: in every reachable state every stored thread whose media_url is set
\* refers to a file that exists on the disk, under the upload or thumbnail
\* directory of its URL: no create_thread, a failed file or thumbnail write
\* included, stores a thread that points at a missing file.
C12_MediaFileExists ==
    \A k \in prefix_keys(store, THREAD_PREFIX) :
        LET thread == from_slice_Thread(store[k])[1]
        IN thread.media_url # None => served_file(thread.media_url[1]) \in files

\* C14: after a create_thread that stores no thread because the title or
\* the message is empty, the media type is unsupported or the image is
\* undecodable, none of the files written during the request is left on the
\* disk.
C14_NoFileLeftOnRejection ==
    (/\ Answered.op = "create_thread"
     /\ Answered.status = 400
     /\ Answered.body \in {"Title and Message cannot be empty", "Unsupported image format",
                           "Unsupported video format", "Unsupported media type",
                           "Invalid image file"}) =>
        /\ \A i \in DOMAIN Answered.log :
               Answered.log[i].ev \in {"create", "thumb"} => Answered.log[i].path \notin files
        /\ files = Answered.before.files

\* C15: in every create_thread the put of the thread record comes only after
\* every file write of the request's uploads has completed; when creating
\* the file or writing a chunk fails, the request ends with an error and the
\* store is as it was.
C15_PutAfterWrites ==
    /\ \A r \in {inflight[i] : i \in DOMAIN inflight} :
           (r.op = "create_thread" /\ r.pc \in {"field", "stream", "count", "now", "put"}) =>
               /\ r.put_at = 0
               /\ store = r.before.store
               /\ r.pc \in {"count", "now", "put"} =>
                      \A j \in DOMAIN r.log :
                          r.log[j].ev = "create" =>
                              j < Len(r.log) /\ r.log[j + 1] = Event("write", r.log[j].path)
    /\ Answered.op = "create_thread" =>
           \E log \in {Answered.log} :
              /\ \A i \in DOMAIN log :
                     log[i].ev \in {"put", "put_failed"} =>
                         /\ i = Len(log)
                         /\ \A j \in 1..(i - 1) :
                                log[j].ev = "create" => log[j + 1] = Event("write", log[j].path)
              /\ (\E i \in DOMAIN log :
                      log[i].ev \in {"create_failed", "stream_failed", "write_failed"}) =>
                     /\ Answered.status \in {MultipartErr.status}
                                               \cup {IoErr(kind).status : kind \in ErrorKinds}
                     /\ store = Answered.before.store

\* A thread is stored after its upload and thumbnail were written.
C15_Witness ==
    /\ Answered.op = "create_thread" /\ Answered.status = 303
    /\ Len(Answered.log) = 5
    /\ Answered.log[3].ev = "write" /\ Answered.log[4].ev = "thumb"
    /\ Answered.log[5].ev = "put"
    /\ count_threads(store) = 2

\* C16: with create_thread requests run one at a time the k-th successful
\* creation is given id k: the thread keys stored are exactly
\* thread_1..thread_N, each record holds the id of its key, a creation writes
\* a key that was not there, and the id, title, message and media of a
\* stored thread never change afterwards.
C16_ThreadIdsInOrder ==
    [][LET before == prefix_keys(store, THREAD_PREFIX)
           after == prefix_keys(store', THREAD_PREFIX)
           N == count_threads(store')
       IN /\ after = {thread_key(id) : id \in 1..N}
          /\ \A id \in 1..N : store'[thread_key(id)].id = id
          /\ \A k \in before :
                 /\ k \in after
                 /\ store'[k] = [store[k] EXCEPT !.last_updated = store'[k].last_updated]
          /\ (Answered'.op = "create_thread" /\ Answered'.status = 303 /\ Answered' # Answered) =>
                 /\ Answered'.id = Cardinality(before) + 1
                 /\ thread_key(Answered'.id) \notin before
                 /\ after = before \cup {thread_key(Answered'.id)}]_vars

\* The second thread is stored as thread_2 after a reply has touched thread_1.
C16_Witness ==
    /\ Answered.op = "create_thread" /\ Answered.status = 303 /\ Answered.id = 2
    /\ prefix_keys(store, THREAD_PREFIX) = {thread_key(1), thread_key(2)}
    /\ Posted(1) >= 1
    /\ store[thread_key(1)].last_updated < store[thread_key(2)].last_updated

\* The ids of the replies stored for parent p.
ReplyIdsOf(db, p) ==
    {id \in 1..(Cardinality(DOMAIN db) + 1) : reply_key(p, id) \in DOMAIN db}

\* C19: with requests run one at a time and any mix of parent ids, 1 and 10
\* included, the ids given to the successive replies of one parent increase
\* strictly: each reply is stored under a (parent_id, id) key that was not
\* there, and no create_reply changes or removes a reply already stored.
C19_ReplyIdsIncrease ==
    [][/\ \A k \in DOMAIN store :
              starts_with(k, REPLY_PREFIX) => k \in DOMAIN store' /\ store'[k] = store[k]
       /\ (resp'.op = "create_reply" /\ resp'.status = 303 /\ posted' # posted) =>
              LET p == resp'.req.parent_id
              IN /\ reply_key(p, resp'.reply_id) \notin DOMAIN store
                 /\ reply_key(p, resp'.reply_id) \in DOMAIN store'
                 /\ \A id \in ReplyIdsOf(store, p) : id < resp'.reply_id
                 /\ Cardinality(ReplyIdsOf(store', p)) = Posted(p) + 1]_vars

\* After a reply to parent 10, the replies to parent 1 are given the ids 2 and 3.
C19_Witness ==
    /\ resp.op = "create_reply" /\ resp.status = 303
    /\ resp.req.parent_id = 1 /\ resp.reply_id = 3
    /\ ReplyIdsOf(store, 1) = {2, 3}
    /\ ReplyIdsOf(store, 10) = {1}

\* What homepage shows for the pages 1..k of a store.
RECURSIVE PagesUpTo(_, _)
PagesUpTo(db, k) ==
    IF k = 0 THEN <<>>
    ELSE Append(PagesUpTo(db, k - 1), homepage_response(db, Some(k)).shown)

\* C20: every page homepage shows lists its threads by last_updated, latest
\* first; every thread of page k has a last_updated at or above that of every
\* thread of page k+1; and the pages 1..total_pages together hold each stored
\* thread exactly once.
C20_PagesSortedAndComplete ==
    (resp.op = "homepage" /\ resp.status = 200) =>
        \A pages \in {PagesUpTo(store, resp.total_pages)} :
            LET last_updated(id) == get_thread(store, id)[1].last_updated
                places == {<<k, i>> \in (1..Len(pages)) \X (1..PAGE_SIZE) : i <= Len(pages[k])}
            IN /\ resp.total_pages >= 1 => resp.shown = pages[resp.page_number]
               /\ \A k \in 1..Len(pages) :
                      \A i \in 1..(Len(pages[k]) - 1) :
                          last_updated(pages[k][i]) >= last_updated(pages[k][i + 1])
               /\ \A k \in 1..(Len(pages) - 1) :
                      \A i \in 1..Len(pages[k]), j \in 1..Len(pages[k + 1]) :
                          last_updated(pages[k][i]) >= last_updated(pages[k + 1][j])
               /\ Cardinality(places) = resp.total_threads
               /\ \A id \in ThreadIds(store) :
                      Cardinality({pl \in places : pages[pl[1]][pl[2]] = id}) = 1

\* Page 2 of 25 threads made at 25 clock readings: ten threads, newer before older.
C20_Witness ==
    /\ resp.op = "homepage" /\ resp.status = 200
    /\ resp.total_threads = 25 /\ resp.page_number = 2
    /\ Len(resp.shown) = 10
    /\ get_thread(store, resp.shown[1])[1].last_updated
           > get_thread(store, resp.shown[10])[1].last_updated

\* The key a request in flight writes its record under.
PutKeyOf(r) ==
    IF r.op = "create_thread" THEN thread_key(r.id) ELSE reply_key(r.parent_id, r.id)

\* The requests in flight that have written their record under key.
PutsAt(key) ==
    {i \in DOMAIN inflight : inflight[i].put_at > 0 /\ PutKeyOf(inflight[i]) = key}

\* The request that wrote its record under key last.
LastPut(key) ==
    CHOOSE i \in PutsAt(key) : \A j \in PutsAt(key) : inflight[j].put_at <= inflight[i].put_at

\* The records the requests in flight of one kind have written.
PutsOf(op) == {i \in DOMAIN inflight : inflight[i].op = op /\ inflight[i].put_at > 0}

\* C13: when two concurrent create_thread requests, or two concurrent
\* create_reply requests to one parent, have computed the same next id and
\* both have written, both report success (303), yet the store holds one
\* record at that key, the one written last: the record of the earlier
\* request is nowhere in the store, and the store has fewer records of that
\* kind than requests that wrote one.
C13_SameIdLosesOne ==
    \A i, j \in DOMAIN inflight :
        (/\ inflight[i].op = inflight[j].op
         /\ inflight[i].put_at > 0
         /\ inflight[i].put_at < inflight[j].put_at
         /\ PutKeyOf(inflight[i]) = PutKeyOf(inflight[j]))
        => /\ inflight[i].pc = "done" => inflight[i].status = 303
           /\ inflight[j].pc = "done" => inflight[j].status = 303
           /\ store[PutKeyOf(inflight[i])]
                 = to_vec(inflight[LastPut(PutKeyOf(inflight[i]))].record[1])
           /\ \A k \in DOMAIN store : store[k] # to_vec(inflight[i].record[1])
           /\ IF inflight[i].op = "create_thread"
              THEN Cardinality(prefix_keys(store, THREAD_PREFIX)) - 1
                      < Cardinality(PutsOf("create_thread"))
              ELSE Cardinality(prefix_keys(store, REPLY_PREFIX))
                      < Cardinality(PutsOf("create_reply"))

\* Two create_thread requests have both answered 303 for the same id, and the
\* board has one thread more than at the start.
C13_Witness ==
    \E i, j \in DOMAIN inflight :
        /\ i # j
        /\ inflight[i].op = "create_thread" /\ inflight[j].op = "create_thread"
        /\ inflight[i].pc = "done" /\ inflight[j].pc = "done"
        /\ inflight[i].status = 303 /\ inflight[j].status = 303
        /\ inflight[i].id = inflight[j].id
        /\ Cardinality(prefix_keys(store, THREAD_PREFIX)) = 2

\* The same for two create_reply requests to thread 1: both answered 303 for
\* the same reply id, and the thread has one reply.
C13_WitnessReplies ==
    \E i, j \in DOMAIN inflight :
        /\ i # j
        /\ inflight[i].op = "create_reply" /\ inflight[j].op = "create_reply"
        /\ inflight[i].pc = "done" /\ inflight[j].pc = "done"
        /\ inflight[i].put_at > 0 /\ inflight[j].put_at > 0
        /\ inflight[i].status = 303 /\ inflight[j].status = 303
        /\ inflight[i].id = inflight[j].id
        /\ Cardinality(prefix_keys(store, REPLY_PREFIX)) = 1

\* A step in which a create_reply request writes the touched thread back.
TouchStep ==
    \E i \in DOMAIN inflight :
        /\ inflight[i].pc = "touch" /\ inflight[i].touch_ok
        /\ inflight'[i].pc = "done"

\* The requests in flight that have written a touched thread back.
Touches == {i \in DOMAIN inflight : inflight[i].touch_at > 0}

LastTouch ==
    CHOOSE i \in Touches : \A j \in Touches : inflight[j].touch_at <= inflight[i].touch_at

\* C17: among concurrent create_reply requests to thread 1, the step that
\* writes the touched thread back leaves every reply record in place and
\* unchanged, and changes no field of a thread record but last_updated; once
\* every request has finished, the last_updated of thread 1 is the timestamp
\* of the touch that wrote last.
C17_TouchWritesOnlyLastUpdated ==
    /\ []((/\ \A i \in DOMAIN inflight : inflight[i].pc = "done"
           /\ Touches # {})
          => get_thread(store, 1)[1].last_updated
                = inflight[LastTouch].thread[1].last_updated)
    /\ [][TouchStep =>
            /\ \A k \in prefix_keys(store, REPLY_PREFIX) :
                  k \in DOMAIN store' /\ store'[k] = store[k]
            /\ \A k \in prefix_keys(store, THREAD_PREFIX) :
                  /\ k \in DOMAIN store'
                  /\ [store'[k] EXCEPT !.last_updated = 0]
                        = [store[k] EXCEPT !.last_updated = 0]]_vars

\* Two replies to thread 1 have finished, their touches carried different
\* timestamps, the thread has replies, and it still has its video.
C17_Witness ==
    /\ \A i \in DOMAIN inflight : inflight[i].pc = "done"
    /\ \E i, j \in Touches :
          /\ inflight[i].touch_at < inflight[j].touch_at
          /\ inflight[i].thread[1].last_updated # inflight[j].thread[1].last_updated
    /\ prefix_keys(store, REPLY_PREFIX) # {}
    /\ get_thread(store, 1)[1].media_type = Some("Video")

\* A step of a create_reply request.
ReplyStep ==
    \E i \in DOMAIN inflight :
        inflight[i].op = "create_reply" /\ inflight'[i] # inflight[i]

\* C18: while create_reply requests run concurrently and the clock only
\* moves forward, no step of a create_reply request lowers the last_updated
\* of a stored thread.
C18_LastUpdatedNeverDecreases ==
    [][ReplyStep =>
          \A k \in prefix_keys(store, THREAD_PREFIX) :
              k \in DOMAIN store' => store'[k].last_updated >= store[k].last_updated]_vars

\* The thread records of a store.
ThreadPart(db) == [k \in prefix_keys(db, THREAD_PREFIX) |-> db[k]]

\* The create_reply requests in flight.
Repliers == {i \in DOMAIN inflight : inflight[i].op = "create_reply"}

\* C21: a create_reply writes the touched parent only after its reply put
\* has succeeded; when the reply put fails the request answers 500 and has
\* written nothing; the step of the reply put stores the reply and leaves
\* every thread record as it was, and so does every later step of the
\* request up to the write of the touched parent, so a request stopped
\* between the two puts leaves the reply stored and the parent untouched.
C21_TouchAfterReplyPut ==
    /\ [](\A i \in Repliers :
            /\ inflight[i].touch_at > 0 =>
                  inflight[i].put_at > 0 /\ inflight[i].put_at < inflight[i].touch_at
            /\ (inflight[i].pc = "done" /\ ~inflight[i].put_ok) =>
                  /\ inflight[i].status = 500
                  /\ inflight[i].put_at = 0 /\ inflight[i].touch_at = 0
            /\ inflight[i].pc \in {"get", "now", "touch"} =>
                  /\ inflight[i].put_at > 0
                  /\ PutKeyOf(inflight[i]) \in DOMAIN store)
    /\ [][\A i \in Repliers :
            inflight'[i] # inflight[i] =>
               /\ ThreadPart(store') # ThreadPart(store) =>
                     inflight[i].pc = "touch" /\ inflight[i].put_at > 0
               /\ (inflight[i].pc = "put" /\ ~inflight[i].put_ok) => store' = store
               /\ (inflight[i].pc = "put" /\ inflight[i].put_ok) =>
                     /\ store'[PutKeyOf(inflight[i])] = to_vec(inflight[i].record[1])
                     /\ \A k \in DOMAIN store \ {PutKeyOf(inflight[i])} :
                           k \in DOMAIN store' /\ store'[k] = store[k]]_vars

\* One create_reply stands between its two puts, its reply stored and
\* thread 1 still carrying the timestamp 0 although the clock shows 1; the
\* reply put of another has failed and it has answered 500.
C21_Witness ==
    /\ clock = 1
    /\ get_thread(store, 1)[1].last_updated = 0
    /\ \E i, j \in Repliers :
          /\ inflight[i].pc = "touch" /\ inflight[i].put_at > 0
          /\ store[PutKeyOf(inflight[i])] = to_vec(inflight[i].record[1])
          /\ inflight[j].pc = "done" /\ ~inflight[j].put_ok /\ inflight[j].status = 500

\* The names create_thread gives the files it stores: a unique id, a dot and
\* the subtype of the upload.
GeneratedNames(subtypes) ==
    {Decimal(u) \o <<".", ext>> : u \in 1..uuid, ext \in subtypes}

\* C22: every stored thread has its media_url and its media kind both
\* absent or both present, whatever fields the request had; kind Video goes
\* with a URL /uploads/videos/<name>, kind Image with /uploads/images/<name>
\* or /thumbs/images/thumb_<name>, <name> being a generated file name.
C22_MediaUrlMatchesKind ==
    \A k \in prefix_keys(store, THREAD_PREFIX) :
        LET thread == from_slice_Thread(store[k])[1]
            url == thread.media_url[1]
        IN /\ (thread.media_url = None) <=> (thread.media_type = None)
           /\ thread.media_type \in {None, Some("Video"), Some("Image")}
           /\ thread.media_type = Some("Video") =>
                 /\ Head(url) = "/uploads/videos/"
                 /\ Tail(url) \in GeneratedNames({"mp4"})
           /\ thread.media_type = Some("Image") =>
                 \/ /\ Head(url) = "/uploads/images/"
                    /\ Tail(url) \in GeneratedNames({"jpeg", "png", "gif", "webp"})
                 \/ /\ Head(url) = "/thumbs/images/"
                    /\ url[2] = "thumb_"
                    /\ Tail(Tail(url)) \in GeneratedNames({"jpeg", "png", "webp"})

\* The board holds a thread without media and a thread with a video, and the
\* last request had two media fields: a video, then an image whose thumbnail
\* could not be made, and its thread is recorded as a video.
C22_Witness ==
    /\ Answered.op = "create_thread" /\ Answered.status = 303
    /\ Cardinality({i \in DOMAIN Answered.log : Answered.log[i].ev = "media"}) = 2
    /\ \E i \in DOMAIN Answered.log : Answered.log[i].ev = "thumb_open_failed"
    /\ get_thread(store, Answered.id)[1].media_type = Some("Video")
    /\ \E k \in prefix_keys(store, THREAD_PREFIX) :
          from_slice_Thread(store[k])[1].media_url = None

\* Event i of a log is a media field named as a GIF whose file was written
\* whole and could be decoded.
ValidGifAt(log, i) ==
    /\ log[i].ev = "media"
    /\ mime_guess(log[i].path) = [type |-> "image", subtype |-> "gif"]
    /\ i + 2 <= Len(log)
    /\ log[i + 2].ev = "write"
    /\ i + 3 <= Len(log) => log[i + 3].ev # "undecodable"

\* C23: a valid GIF upload makes one file, the original under the
\* images-upload directory, and no thumbnail file; when it is the upload the
\* thread records, the media URL is the original's /uploads/images/<name>
\* and the kind is Image, in the response and in the stored thread.
C23_GifKeepsOriginalOnly ==
    Answered.op = "create_thread" =>
        \A i \in DOMAIN Answered.log :
            ValidGifAt(Answered.log, i) =>
                LET path == Answered.log[i + 1].path
                    name == Tail(path)
                IN /\ Answered.log[i + 1].ev = "create"
                   /\ Head(path) = IMAGE_UPLOAD_DIR
                   /\ name \in GeneratedNames({"gif"})
                   /\ path \in files
                   /\ i + 3 <= Len(Answered.log) =>
                         Answered.log[i + 3].ev \in {"media", "put", "put_failed"}
                   /\ (<<IMAGE_THUMB_DIR, "thumb_">> \o name) \notin files
                   /\ (LastUpload(Answered.log, i) /\ Answered.status = 303) =>
                         /\ Answered.media_url = Some(<<"/uploads/images/">> \o name)
                         /\ Answered.media_type = Some("Image")
                         /\ get_thread(store, Answered.id)[1].media_url = Answered.media_url
                         /\ get_thread(store, Answered.id)[1].media_type = Some("Image")

\* A thread was created from a request whose one media field was a valid
\* GIF: the file is on the disk and the thread records its URL.
C23_Witness ==
    /\ Answered.op = "create_thread" /\ Answered.status = 303
    /\ Cardinality({i \in DOMAIN Answered.log : Answered.log[i].ev = "media"}) = 1
    /\ \E i \in DOMAIN Answered.log :
          /\ ValidGifAt(Answered.log, i)
          /\ Answered.log[i + 1].path \in files
          /\ get_thread(store, Answered.id)[1].media_url
                = Some(<<"/uploads/images/">> \o Tail(Answered.log[i + 1].path))

====
